---- MODULE Spec2Model ----
(***************************************************************************)
(* Model of guided_diffusion/script_util.py (the model and diffusion       *)
(* builders) and guided_diffusion/dataloader/deca_datasets.py (the DECA    *)
(* parameter normalisation and the DECADataset item fetch).                *)
(*                                                                         *)
(* Four specifications share the module:                                   *)
(*   SpecNorm     normalize / denormalize applied to bounded inputs        *)
(*   SpecBuild    create_model, create_param_model, create_gaussian_-      *)
(*                diffusion and the three pipeline builders                *)
(*   SpecData     load_data_deca and __getitem__ over varied parameter     *)
(*                files, under the default resize and augment modes        *)
(*   SpecAugment  load_data_deca and __getitem__ over every resize and     *)
(*                augment mode, over one set of parameter files            *)
(* Python exceptions are modelled as outcome records [kind |-> <name>].    *)
(***************************************************************************)
EXTENDS Integers, Sequences, FiniteSets, TLC

VARIABLES
    nIn,          \* normalize/denormalize: the inputs x, min_val, max_val, a, b
    nTrace,       \* normalize/denormalize: the calls made so far and what each returned
    call,         \* script_util: the builder last called, with its cfg
    ret,          \* script_util: what that call returned or raised
    files,        \* deca_datasets: the files under deca_dir and data_dir
    deca_params,  \* deca_datasets: the table load_deca_params returned (or its exception)
    dataset,      \* deca_datasets: the DECADataset object's fields
    fetched       \* deca_datasets: the last __getitem__ call and its outcome

vars == <<nIn, nTrace, call, ret, files, deca_params, dataset, fetched>>

normVars == <<nIn, nTrace>>
buildVars == <<call, ret>>
dataVars == <<files, deca_params, dataset, fetched>>

\* Python's None where the other values are strings, and where they are arrays;
\* the value a variable holds while the specification at hand does not use it
None == "None"
NoArray == <<>>
Idle == [kind |-> "idle"]

\* what the variables of the other specifications hold meanwhile
IdleNorm == nIn = Idle /\ nTrace = <<>>
IdleBuild == call = Idle /\ ret = Idle
IdleData == files = Idle /\ deca_params = Idle /\ dataset = Idle /\ fetched = Idle

(***************************************************************************)
(* Exact arithmetic.  A number is <<n, d>> in lowest terms with d >= 0;    *)
(* d = 0 holds the values a float64 division by zero produces:             *)
(* <<0, 0>> is nan, <<1, 0>> is +inf, <<-1, 0>> is -inf.                    *)
(***************************************************************************)
Abs(x) == IF x < 0 THEN -x ELSE x

RECURSIVE GCD(_, _)
GCD(a, b) == IF b = 0 THEN a ELSE GCD(b, a % b)

Rat(n, d) ==
    LET g == GCD(Abs(n), Abs(d))
        s == IF d < 0 THEN -1 ELSE 1
    IN  IF g = 0 THEN <<0, 0>> ELSE <<(s * n) \div g, (s * d) \div g>>

FromInt(i) == <<i, 1>>
IsFinite(x) == x[2] > 0

RAdd(x, y) == Rat(x[1] * y[2] + y[1] * x[2], x[2] * y[2])
RNeg(x) == <<-x[1], x[2]>>
RSub(x, y) == RAdd(x, RNeg(y))
RMul(x, y) == Rat(x[1] * y[1], x[2] * y[2])
RDiv(x, y) == Rat(x[1] * y[2], x[2] * y[1])
RLt(x, y) == IsFinite(x) /\ IsFinite(y) /\ x[1] * y[2] < y[1] * x[2]
RLe(x, y) == IsFinite(x) /\ IsFinite(y) /\ x[1] * y[2] <= y[1] * x[2]

\* np.max / np.min over a non-empty sequence of finite numbers
RECURSIVE SeqMax(_)
SeqMax(s) ==
    IF Len(s) = 1 THEN s[1]
    ELSE LET m == SeqMax(Tail(s)) IN IF RLt(m, s[1]) THEN s[1] ELSE m

RECURSIVE SeqMin(_)
SeqMin(s) ==
    IF Len(s) = 1 THEN s[1]
    ELSE LET m == SeqMin(Tail(s)) IN IF RLt(s[1], m) THEN s[1] ELSE m

Column(arr, c) == [r \in 1..Len(arr) |-> arr[r][c]]

(***************************************************************************)
(* deca_datasets.py: normalize, denormalize.  arr is an N x P matrix (a    *)
(* sequence of rows); min_val and max_val are vectors of length P, or      *)
(* None (NoArray); a and b are numbers.                                    *)
(***************************************************************************)
\* normalize_elem with the new maximum added where the new minimum belongs; C4 must
\* tell the two apart
normalize_elem_plus_b(x, lo, hi, a, b) ==
    RAdd(RDiv(RMul(RSub(b, a), RSub(x, lo)), RSub(hi, lo)), b)

normalize_elem(x, lo, hi, a, b) ==
    RAdd(RDiv(RMul(RSub(b, a), RSub(x, lo)), RSub(hi, lo)), a)

normalize(arr, min_val, max_val, a, b) ==
    LET P == Len(arr[1])
        both == max_val = NoArray /\ min_val = NoArray
        hi == IF both THEN [c \in 1..P |-> SeqMax(Column(arr, c))] ELSE max_val
        lo == IF both THEN [c \in 1..P |-> SeqMin(Column(arr, c))] ELSE min_val
    IN  IF ~both /\ (max_val = NoArray \/ min_val = NoArray)
        THEN [kind |-> "TypeError"]
        ELSE [kind |-> "ok",
              arr_norm |-> [r \in 1..Len(arr) |->
                              [c \in 1..P |-> normalize_elem(arr[r][c], lo[c], hi[c], a, b)]],
              min_val |-> lo,
              max_val |-> hi]

\* denormalize_elem without the subtraction of the new minimum; C3 must tell the
\* two apart
denormalize_elem_unshifted(y, lo, hi, a, b) ==
    RAdd(RDiv(RMul(y, RSub(hi, lo)), RSub(b, a)), lo)

denormalize_elem(y, lo, hi, a, b) ==
    RAdd(RDiv(RMul(RSub(y, a), RSub(hi, lo)), RSub(b, a)), lo)

denormalize(arr_norm, min_val, max_val, a, b) ==
    [r \in 1..Len(arr_norm) |->
        [c \in 1..Len(arr_norm[1]) |->
            denormalize_elem(arr_norm[r][c], min_val[c], max_val[c], a, b)]]

(***************************************************************************)
(* SpecNorm: normalize and denormalize applied, in either order, to one    *)
(* value under one (min_val, max_val, a, b).                               *)
(***************************************************************************)
NormMaxNum == 2
NormMaxDen == 2
NormMaxEdge == 2
MaxCalls == 2

NormValues == {Rat(n, d) : n \in (-NormMaxNum)..NormMaxNum, d \in 1..NormMaxDen}
NormEdges == {FromInt(i) : i \in (-1)..NormMaxEdge}

InitNorm ==
    /\ nIn \in [x : NormValues, min_val : NormEdges, max_val : NormEdges,
                a : NormEdges, b : NormEdges]
    /\ nTrace = <<>>
    /\ IdleBuild
    /\ IdleData

\* the array the next call is applied to: the input, or the last call's output
Current == IF nTrace = <<>> THEN <<<<nIn.x>>>> ELSE nTrace[Len(nTrace)].out

Normalize ==
    /\ Len(nTrace) < MaxCalls
    /\ LET r == normalize(Current, <<nIn.min_val>>, <<nIn.max_val>>, nIn.a, nIn.b)
       IN  nTrace' = Append(nTrace, [op |-> "normalize", out |-> r.arr_norm,
                                     min_val |-> r.min_val, max_val |-> r.max_val])
    /\ UNCHANGED <<nIn, buildVars, dataVars>>

Denormalize ==
    /\ Len(nTrace) < MaxCalls
    /\ nTrace' = Append(nTrace,
            [op |-> "denormalize",
             out |-> denormalize(Current, <<nIn.min_val>>, <<nIn.max_val>>, nIn.a, nIn.b),
             min_val |-> <<nIn.min_val>>, max_val |-> <<nIn.max_val>>])
    /\ UNCHANGED <<nIn, buildVars, dataVars>>

NextNorm == Normalize \/ Denormalize

SpecNorm == InitNorm /\ [][NextNorm]_vars

\* the first two calls made, once two were made
FirstTwo == IF Len(nTrace) >= 2 THEN <<nTrace[1].op, nTrace[2].op>> ELSE <<>>
NormPre == RLt(nIn.min_val, nIn.max_val) /\ RLt(nIn.a, nIn.b)

\* C3: denormalize(normalize(x, min_val, max_val, a, b)[0], min_val, max_val, a, b) = x
\* whenever min_val < max_val and a < b, and normalize hands back the supplied
\* min_val and max_val.
C3_RoundTrip ==
    (NormPre /\ Len(nTrace) >= 1 /\ nTrace[1].op = "normalize") =>
        /\ nTrace[1].min_val = <<nIn.min_val>>
        /\ nTrace[1].max_val = <<nIn.max_val>>
        /\ (Len(nTrace) >= 2 /\ nTrace[2].op = "denormalize")
              => nTrace[2].out = <<<<nIn.x>>>>

C3_Witness ==
    /\ NormPre
    /\ FirstTwo = <<"normalize", "denormalize">>
    /\ nTrace[1].out # <<<<nIn.x>>>>
    /\ nIn.x[2] = 2

\* C4: normalize(denormalize(y, min_val, max_val, a, b), min_val, max_val, a, b)[0] = y
\* whenever min_val < max_val and a < b.
C4_InverseRoundTrip ==
    (NormPre /\ FirstTwo = <<"denormalize", "normalize">>) => nTrace[2].out = <<<<nIn.x>>>>

C4_Witness ==
    /\ NormPre
    /\ FirstTwo = <<"denormalize", "normalize">>
    /\ nTrace[1].out # <<<<nIn.x>>>>
    /\ nIn.x[2] = 2

(***************************************************************************)
(* Python strings are sequences of one-character strings, so that          *)
(* str.split(",") and int() are computed rather than assumed.              *)
(***************************************************************************)
DigitValue ==
    [c \in {"0", "1", "2", "3", "4", "5", "6", "7", "8", "9"} |->
        CASE c = "0" -> 0 [] c = "1" -> 1 [] c = "2" -> 2 [] c = "3" -> 3
          [] c = "4" -> 4 [] c = "5" -> 5 [] c = "6" -> 6 [] c = "7" -> 7
          [] c = "8" -> 8 [] c = "9" -> 9]

\* str.split(sep): the pieces between separators ("" splits to [""])
RECURSIVE Split(_, _)
Split(s, sep) ==
    IF s = <<>> THEN <<<<>>>>
    ELSE LET rest == Split(Tail(s), sep)
         IN  IF Head(s) = sep THEN <<<<>>>> \o rest
             ELSE <<<<Head(s)>> \o rest[1]>> \o Tail(rest)

\* int(tok) on a string of decimal digits; anything else is a ValueError
RECURSIVE DigitsValue(_)
DigitsValue(tok) ==
    IF tok = <<>> THEN 0
    ELSE DigitsValue(SubSeq(tok, 1, Len(tok) - 1)) * 10 + DigitValue[tok[Len(tok)]]

IsInt(tok) == tok # <<>> /\ \A i \in 1..Len(tok) : tok[i] \in DOMAIN DigitValue
Raise(name) == [kind |-> name]
Ok(v) == [kind |-> "ok", value |-> v]
Failed(r) == r.kind # "ok"

int(tok) == IF IsInt(tok) THEN Ok(DigitsValue(tok)) ELSE Raise("ValueError")

\* A config value that is None or a string; Python truthiness: None and "" are falsy
PyNone == [t |-> "None"]
PyStr(s) == [t |-> "str", s |-> s]
Truthy(v) == v.t = "str" /\ v.s # <<>>

(***************************************************************************)
(* script_util.py: create_param_model, create_model.  Only the cfg fields  *)
(* that decide the control flow are kept; the others are handed to the     *)
(* model classes untouched.                                                *)
(***************************************************************************)
NUM_CLASSES == 1000

\* create_param_model whose last branch builds the autoencoder for any other tag
\* instead of raising; C6 must tell the two apart
create_param_model_lenient(cfg) ==
    IF cfg.deca_cond
    THEN [kind |-> "ok", cls |-> "DECADenseCond"]
    ELSE IF cfg.arch = "magenta" THEN [kind |-> "ok", cls |-> "DenseDDPM"]
    ELSE [kind |-> "ok", cls |-> "AutoEncoderDPM"]

create_param_model(cfg) ==
    IF cfg.deca_cond
    THEN [kind |-> "ok", cls |-> "DECADenseCond"]
    ELSE IF cfg.arch = "magenta" THEN [kind |-> "ok", cls |-> "DenseDDPM"]
    ELSE IF cfg.arch = "autoenc" THEN [kind |-> "ok", cls |-> "AutoEncoderDPM"]
    ELSE Raise("NotImplementedError")

\* lines 58-70: the channel multipliers, as numbers; <<>> stands for the ValueError
\* of an unsupported image size or of int() on a piece that is no integer
channel_mult_of(cfg) ==
    IF cfg.channel_mult = <<>>
    THEN CASE cfg.image_size = 512 ->
                <<Rat(1, 2), FromInt(1), FromInt(1), FromInt(2), FromInt(2), FromInt(4), FromInt(4)>>
           [] cfg.image_size = 256 ->
                <<FromInt(1), FromInt(1), FromInt(2), FromInt(2), FromInt(4), FromInt(4)>>
           [] cfg.image_size = 128 ->
                <<FromInt(1), FromInt(1), FromInt(2), FromInt(3), FromInt(4)>>
           [] cfg.image_size = 64 ->
                <<FromInt(1), FromInt(2), FromInt(3), FromInt(4)>>
           [] OTHER -> <<>>
    ELSE LET toks == Split(cfg.channel_mult, ",")
         IN  IF \E i \in 1..Len(toks) : Failed(int(toks[i])) THEN <<>>
             ELSE [i \in 1..Len(toks) |-> FromInt(int(toks[i]).value)]

\* lines 72-74: image_size // int(res) for each listed resolution
attention_ds_of(cfg) ==
    LET toks == Split(cfg.attention_resolutions, ",")
    IN  IF \E i \in 1..Len(toks) : Failed(int(toks[i])) THEN Raise("ValueError")
        ELSE IF \E i \in 1..Len(toks) : int(toks[i]).value = 0 THEN Raise("ZeroDivisionError")
        ELSE Ok([i \in 1..Len(toks) |-> cfg.image_size \div int(toks[i]).value])

UNetObject(cls, cfg, channel_mult, attention_ds, condition) ==
    [kind |-> "ok", cls |-> cls, image_size |-> cfg.image_size,
     channel_mult |-> channel_mult, attention_resolutions |-> attention_ds,
     \* <<>> is None
     num_classes |-> IF cfg.class_cond THEN <<NUM_CLASSES>> ELSE <<>>,
     condition |-> condition]

create_model(cfg) ==
    LET channel_mult == channel_mult_of(cfg)
        attention_ds == attention_ds_of(cfg)
    IN  IF channel_mult = <<>> THEN Raise("ValueError")
        ELSE IF Failed(attention_ds) THEN attention_ds
        ELSE IF cfg.arch = "UNet"
             THEN UNetObject("UNetModel", cfg, channel_mult, attention_ds.value, FALSE)
        ELSE IF cfg.arch = "UNetCond"
             THEN UNetObject("UNetModelCondition", cfg, channel_mult, attention_ds.value, TRUE)
        ELSE Raise("NotImplementedError")

(***************************************************************************)
(* The collaborators of create_gaussian_diffusion, after sections 3, 4.1   *)
(* and 4.3 of the specification.  A beta is kept symbolic: the schedule    *)
(* it belongs to and its index.  A respaced beta is the run of original    *)
(* indices it covers: 1 - alphabar[t_i] / alphabar[t_(i-1)] is             *)
(* 1 - the product of (1 - beta[j]) over t_(i-1) < j <= t_i, so it         *)
(* equals an original beta exactly when its run is that one index.         *)
(***************************************************************************)
get_named_beta_schedule(schedule_name, num_steps) ==
    IF schedule_name \in {"linear", "cosine"}
    THEN Ok([i \in 1..num_steps |-> [schedule |-> schedule_name, t |-> i - 1]])
    ELSE Raise("ConfigurationError")

\* Python's round(n / d) for n >= 0, d > 0: to the nearest, a tie to the even one
round(n, d) ==
    LET q == n \div d
        twice == 2 * (n % d)
    IN  IF twice < d THEN q
        ELSE IF twice > d THEN q + 1
        ELSE IF q % 2 = 0 THEN q ELSE q + 1

\* count indices spread evenly over the segment start .. start + size - 1
section_steps(start, size, count) ==
    IF count <= 1 THEN {start + i : i \in 0..(count - 1)}
    ELSE {start + round(i * (size - 1), count - 1) : i \in 0..(count - 1)}

space_timesteps(num_timesteps, section_counts) ==
    LET n == Len(section_counts)
    IN  IF n = 0 \/ num_timesteps % n # 0 THEN Raise("ConfigurationError")
        ELSE LET size == num_timesteps \div n
             IN  IF \E i \in 1..n : section_counts[i] > size
                 THEN Raise("ConfigurationError")
                 ELSE Ok(UNION {section_steps((i - 1) * size, size, section_counts[i]) :
                                    i \in 1..n})

RECURSIVE Sorted(_)
Sorted(S) ==
    IF S = {} THEN <<>>
    ELSE LET m == CHOOSE x \in S : \A y \in S : x <= y
         IN  <<m>> \o Sorted(S \ {m})

SpacedDiffusion(use_timesteps, betas, model_mean_type, model_var_type, loss_type, rescale_timesteps) ==
    LET timestep_map == Sorted(use_timesteps)
        prev(i) == IF i = 1 THEN -1 ELSE timestep_map[i - 1]
    IN  IF use_timesteps = {} THEN Raise("ConfigurationError")
        ELSE [kind |-> "ok", cls |-> "SpacedDiffusion",
              timestep_map |-> timestep_map,
              betas |-> [i \in 1..Len(timestep_map) |->
                            [j \in 1..(timestep_map[i] - prev(i)) |->
                                betas[prev(i) + 1 + j]]],
              original_num_steps |-> Len(betas),
              model_mean_type |-> model_mean_type,
              model_var_type |-> model_var_type,
              loss_type |-> loss_type,
              rescale_timesteps |-> rescale_timesteps]

(***************************************************************************)
(* script_util.py: create_gaussian_diffusion and the pipeline builders.    *)
(***************************************************************************)
\* loss_type_of with use_kl selecting the unrescaled KL; C8 must tell the two apart
loss_type_of_plain_kl(cfg) ==
    IF cfg.use_kl THEN "KL"
    ELSE IF cfg.rescale_learned_sigmas THEN "RESCALED_MSE"
    ELSE "MSE"

loss_type_of(cfg) ==
    IF cfg.use_kl THEN "RESCALED_KL"
    ELSE IF cfg.rescale_learned_sigmas THEN "RESCALED_MSE"
    ELSE "MSE"

model_mean_type_of(cfg) == IF ~cfg.predict_xstart THEN "EPSILON" ELSE "START_X"

model_var_type_of(cfg) ==
    IF ~cfg.learn_sigma
    THEN (IF ~cfg.sigma_small THEN "FIXED_LARGE" ELSE "FIXED_SMALL")
    ELSE "LEARNED_RANGE"

\* timestep_respacing_local one step short of the horizon; C2 must tell the two apart
timestep_respacing_local_short(cfg) ==
    IF ~Truthy(cfg.timestep_respacing) THEN <<<<cfg.diffusion_steps - 1>>>> ELSE <<>>

\* lines 127-128: the local timestep_respacing is bound only when the configured
\* value is falsy; <<>> stands for the unbound local
timestep_respacing_local(cfg) ==
    IF ~Truthy(cfg.timestep_respacing) THEN <<<<cfg.diffusion_steps>>>> ELSE <<>>

create_gaussian_diffusion(cfg) ==
    LET betas == get_named_beta_schedule(cfg.noise_schedule, cfg.diffusion_steps)
        timestep_respacing == timestep_respacing_local(cfg)
    IN  IF Failed(betas) THEN betas
        ELSE IF timestep_respacing = <<>> THEN Raise("UnboundLocalError")
        ELSE LET use_timesteps == space_timesteps(cfg.diffusion_steps, timestep_respacing[1])
             IN  IF Failed(use_timesteps) THEN use_timesteps
                 ELSE SpacedDiffusion(use_timesteps.value, betas.value,
                                      model_mean_type_of(cfg), model_var_type_of(cfg),
                                      loss_type_of(cfg), cfg.rescale_timesteps)

create_img_deca_and_diffusion(cfg) ==
    LET img_model == create_model(cfg.img_model)
        params_model == create_param_model(cfg.param_model)
        diffusion == create_gaussian_diffusion(cfg.diffusion)
    IN  IF Failed(img_model) THEN img_model
        ELSE IF Failed(params_model) THEN params_model
        ELSE IF Failed(diffusion) THEN diffusion
        ELSE Ok(<<img_model, params_model, diffusion>>)

create_deca_and_diffusion(cfg) ==
    LET param_model == create_param_model(cfg.param_model)
        diffusion == create_gaussian_diffusion(cfg.diffusion)
    IN  IF Failed(param_model) THEN param_model
        ELSE IF Failed(diffusion) THEN diffusion
        ELSE Ok(<<param_model, diffusion>>)

create_img_and_diffusion(cfg) ==
    LET img_model == create_model(cfg.img_model)
        diffusion == create_gaussian_diffusion(cfg.diffusion)
    IN  IF Failed(img_model) THEN img_model
        ELSE IF Failed(diffusion) THEN diffusion
        ELSE Ok(<<img_model, diffusion>>)

\* lines 129-130: the calls of space_timesteps the builder makes, with their arguments
space_timesteps_calls(cfg) ==
    IF Failed(get_named_beta_schedule(cfg.noise_schedule, cfg.diffusion_steps))
       \/ timestep_respacing_local(cfg) = <<>>
    THEN <<>>
    ELSE <<[num_timesteps |-> cfg.diffusion_steps,
            section_counts |-> timestep_respacing_local(cfg)[1]]>>

(***************************************************************************)
(* SpecBuild: one builder is called once with a configuration drawn from   *)
(* the sets below.                                                         *)
(***************************************************************************)
MaxSteps == 3

DigitChar == <<"0", "1", "2", "3", "4", "5", "6", "7", "8", "9">>

ImgModelCfgs ==
    [arch : {"UNet", "UNetCond", "ResNet"},
     channel_mult : {<<>>, <<"1", ",", "2">>},
     image_size : {64, 512, 96},
     attention_resolutions : {<<"1", "6", ",", "8">>},
     class_cond : BOOLEAN]

ParamModelCfgs == [deca_cond : BOOLEAN, arch : {"magenta", "autoenc", "mlp"}]

\* unset, empty, or a count N of 2 .. MaxSteps written in decimal
Respacings ==
    {PyNone, PyStr(<<>>)} \cup {PyStr(<<DigitChar[n + 1]>>) : n \in 2..MaxSteps}

DiffusionCfgsWith(flags) ==
    [noise_schedule : {"linear", "cosine", "sqrt"},
     diffusion_steps : 1..MaxSteps,
     use_kl : BOOLEAN,
     learn_sigma : BOOLEAN,
     rescale_learned_sigmas : flags,
     sigma_small : flags,
     predict_xstart : flags,
     rescale_timesteps : flags,
     timestep_respacing : Respacings]

DiffusionCfgs == DiffusionCfgsWith(BOOLEAN)
\* the pipelines are exercised with the four remaining flags left off
PipelineDiffusionCfgs == DiffusionCfgsWith({FALSE})

InitBuild ==
    /\ call = Idle
    /\ ret = Idle
    /\ IdleNorm
    /\ IdleData

Invoke(fn, cfg, result, made) ==
    /\ call' = [kind |-> "call", fn |-> fn, cfg |-> cfg, space_timesteps |-> made]
    /\ ret' = result
    /\ UNCHANGED <<normVars, dataVars>>

CallCreateModel ==
    /\ call = Idle
    /\ \E cfg \in ImgModelCfgs : Invoke("create_model", cfg, create_model(cfg), <<>>)

CallCreateParamModel ==
    /\ call = Idle
    /\ \E cfg \in ParamModelCfgs :
        Invoke("create_param_model", cfg, create_param_model(cfg), <<>>)

CallCreateGaussianDiffusion ==
    /\ call = Idle
    /\ \E cfg \in DiffusionCfgs :
        Invoke("create_gaussian_diffusion", cfg, create_gaussian_diffusion(cfg),
               space_timesteps_calls(cfg))

\* the pipelines reach space_timesteps only when the models before it were built
CallCreateImgDecaAndDiffusion ==
    /\ call = Idle
    /\ \E cfg \in [img_model : ImgModelCfgs, param_model : ParamModelCfgs,
                diffusion : PipelineDiffusionCfgs] :
        Invoke("create_img_deca_and_diffusion", cfg, create_img_deca_and_diffusion(cfg),
               IF Failed(create_model(cfg.img_model))
                  \/ Failed(create_param_model(cfg.param_model))
               THEN <<>> ELSE space_timesteps_calls(cfg.diffusion))

CallCreateDecaAndDiffusion ==
    /\ call = Idle
    /\ \E cfg \in [param_model : ParamModelCfgs, diffusion : PipelineDiffusionCfgs] :
        Invoke("create_deca_and_diffusion", cfg, create_deca_and_diffusion(cfg),
               IF Failed(create_param_model(cfg.param_model))
               THEN <<>> ELSE space_timesteps_calls(cfg.diffusion))

CallCreateImgAndDiffusion ==
    /\ call = Idle
    /\ \E cfg \in [img_model : ImgModelCfgs, diffusion : PipelineDiffusionCfgs] :
        Invoke("create_img_and_diffusion", cfg, create_img_and_diffusion(cfg),
               IF Failed(create_model(cfg.img_model))
               THEN <<>> ELSE space_timesteps_calls(cfg.diffusion))

NextBuild ==
    \/ CallCreateModel
    \/ CallCreateParamModel
    \/ CallCreateGaussianDiffusion
    \/ CallCreateImgDecaAndDiffusion
    \/ CallCreateDecaAndDiffusion
    \/ CallCreateImgAndDiffusion

SpecBuild == InitBuild /\ [][NextBuild]_vars

Called(fn) == call.kind = "call" /\ call.fn = fn
Pipelines ==
    {"create_img_deca_and_diffusion", "create_deca_and_diffusion", "create_img_and_diffusion"}
CalledPipeline == call.kind = "call" /\ call.fn \in Pipelines

KnownSchedule(cfg) == cfg.noise_schedule \in {"linear", "cosine"}
Identity(T) == [i \in 1..T |-> i - 1]
StrictlyIncreasing(s) == \A i \in 1..(Len(s) - 1) : s[i] < s[i + 1]

\* C1: with diffusion_steps = T and a respacing string naming a count N, 2 <= N <= T,
\* create_gaussian_diffusion raises nothing and returns a respaced diffusion whose
\* index map is the one the string selects: N strictly increasing indices of
\* 0 .. T-1, the last of them T-1.
C1_RespacingHonoured ==
    (/\ Called("create_gaussian_diffusion")
     /\ KnownSchedule(call.cfg)
     /\ Truthy(call.cfg.timestep_respacing)
     /\ ~Failed(int(call.cfg.timestep_respacing.s))
     /\ int(call.cfg.timestep_respacing.s).value \in 2..call.cfg.diffusion_steps)
    => LET T == call.cfg.diffusion_steps
           N == int(call.cfg.timestep_respacing.s).value
       IN  /\ ret.kind = "ok"
           /\ Len(ret.timestep_map) = N
           /\ StrictlyIncreasing(ret.timestep_map)
           /\ \A i \in 1..N : ret.timestep_map[i] \in 0..(T - 1)
           /\ ret.timestep_map[N] = T - 1
           /\ ret.timestep_map = Sorted(space_timesteps(T, <<N>>).value)

\* C2: with timestep_respacing empty or unset, the request handed to space_timesteps
\* is the single count [diffusion_steps] over diffusion_steps steps, the index map
\* is the identity 0 .. T-1 and every respaced beta is the original beta of its index.
C2_UnsetRespacingIsIdentity ==
    (/\ Called("create_gaussian_diffusion")
     /\ KnownSchedule(call.cfg)
     /\ ~Truthy(call.cfg.timestep_respacing))
    => LET T == call.cfg.diffusion_steps
       IN  /\ call.space_timesteps = <<[num_timesteps |-> T, section_counts |-> <<T>>]>>
           /\ ret.kind = "ok"
           /\ ret.timestep_map = Identity(T)
           /\ ret.original_num_steps = T
           /\ ret.betas = [i \in 1..T |->
                             <<[schedule |-> call.cfg.noise_schedule, t |-> i - 1]>>]

C2_Witness ==
    /\ Called("create_gaussian_diffusion")
    /\ call.cfg.timestep_respacing = PyStr(<<>>)
    /\ call.cfg.diffusion_steps = 3
    /\ ret.kind = "ok"
    /\ ret.timestep_map = <<0, 1, 2>>

UnsupportedImgArch(cfg) == cfg.arch \notin {"UNet", "UNetCond"}
UnsupportedParamArch(cfg) == cfg.arch \notin {"magenta", "autoenc"}
HasImgModel == call.fn \in {"create_img_deca_and_diffusion", "create_img_and_diffusion"}
HasParamModel == call.fn \in {"create_img_deca_and_diffusion", "create_deca_and_diffusion"}

\* C6 as stated: an unsupported architecture tag is always rejected: create_model
\* fails when arch is not UNet or UNetCond, create_param_model fails when arch is not
\* magenta or autoenc, and a pipeline builder returns nothing when any
\* sub-configuration carries an unsupported tag.
C6_UnsupportedArchAlwaysRejected ==
    /\ (Called("create_model") /\ UnsupportedImgArch(call.cfg)) => Failed(ret)
    /\ (Called("create_param_model") /\ UnsupportedParamArch(call.cfg)) => Failed(ret)
    /\ (CalledPipeline /\ HasImgModel /\ UnsupportedImgArch(call.cfg.img_model))
          => Failed(ret)
    /\ (CalledPipeline /\ HasParamModel /\ UnsupportedParamArch(call.cfg.param_model))
          => Failed(ret)

\* C6 as amended: the tag is rejected wherever it is consulted.  create_model fails
\* when arch is not UNet or UNetCond; create_param_model fails when deca_cond is
\* false and arch is not magenta or autoenc, and with deca_cond true returns a
\* DECADenseCond whatever arch is; a pipeline builder returns nothing when
\* img_model carries an unsupported tag or param_model has deca_cond false and an
\* unsupported tag.
C6_ConsultedArchRejected ==
    /\ (Called("create_model") /\ UnsupportedImgArch(call.cfg)) => Failed(ret)
    /\ Called("create_param_model") =>
          /\ (~call.cfg.deca_cond /\ UnsupportedParamArch(call.cfg))
                => ret = Raise("NotImplementedError")
          /\ call.cfg.deca_cond => ret = [kind |-> "ok", cls |-> "DECADenseCond"]
    /\ (CalledPipeline /\ HasImgModel /\ UnsupportedImgArch(call.cfg.img_model))
          => Failed(ret)
    /\ (/\ CalledPipeline /\ HasParamModel
        /\ ~call.cfg.param_model.deca_cond
        /\ UnsupportedParamArch(call.cfg.param_model))
          => Failed(ret)

C6_Witness ==
    /\ Called("create_img_deca_and_diffusion")
    /\ ~UnsupportedImgArch(call.cfg.img_model)
    /\ ~Failed(create_model(call.cfg.img_model))
    /\ ~call.cfg.param_model.deca_cond
    /\ UnsupportedParamArch(call.cfg.param_model)
    /\ ret = Raise("NotImplementedError")

\* the diffusion a successful call built, and the configuration it was built from
BuiltDiffusion ==
    IF call.fn = "create_gaussian_diffusion" THEN ret ELSE ret.value[Len(ret.value)]
BuiltFrom == IF call.fn = "create_gaussian_diffusion" THEN call.cfg ELSE call.cfg.diffusion
BuiltADiffusion ==
    /\ call.kind = "call"
    /\ call.fn \in Pipelines \cup {"create_gaussian_diffusion"}
    /\ ret.kind = "ok"

\* C8: the loss type of a built diffusion is RESCALED_KL when use_kl is set, whatever
\* rescale_learned_sigmas is; otherwise RESCALED_MSE when rescale_learned_sigmas is
\* set; otherwise MSE.  It is never the unrescaled KL.  The variance type is
\* LEARNED_RANGE when learn_sigma is set, whatever sigma_small is; otherwise
\* FIXED_SMALL when sigma_small is set, otherwise FIXED_LARGE.
C8_LossAndVarianceType ==
    BuiltADiffusion =>
        LET cfg == BuiltFrom
            d == BuiltDiffusion
        IN  /\ cfg.use_kl => d.loss_type = "RESCALED_KL"
            /\ (~cfg.use_kl /\ cfg.rescale_learned_sigmas) => d.loss_type = "RESCALED_MSE"
            /\ (~cfg.use_kl /\ ~cfg.rescale_learned_sigmas) => d.loss_type = "MSE"
            /\ d.loss_type \in {"MSE", "RESCALED_MSE", "KL", "RESCALED_KL"}
            /\ d.loss_type # "KL"
            /\ cfg.learn_sigma => d.model_var_type = "LEARNED_RANGE"
            /\ (~cfg.learn_sigma /\ cfg.sigma_small) => d.model_var_type = "FIXED_SMALL"
            /\ (~cfg.learn_sigma /\ ~cfg.sigma_small) => d.model_var_type = "FIXED_LARGE"

C8_Witness ==
    /\ Called("create_gaussian_diffusion")
    /\ ret.kind = "ok"
    /\ call.cfg.use_kl /\ call.cfg.rescale_learned_sigmas
    /\ call.cfg.learn_sigma /\ call.cfg.sigma_small
    /\ ret.loss_type = "RESCALED_KL"
    /\ ret.model_var_type = "LEARNED_RANGE"

(***************************************************************************)
(* deca_datasets.py.  A path or file name is a sequence of tokens with     *)
(* "/", "_" and "." as tokens of their own, so that the name arithmetic    *)
(* of the loader (split, replace) is computed.  A parameter file is the    *)
(* sequence of its rows.  An image is kept symbolic: the file it was read  *)
(* from and what was done to it.                                           *)
(***************************************************************************)
params_key == <<"shape", "pose", "exp", "cam">>
ParamKeys == {params_key[i] : i \in 1..Len(params_key)}

Last(s) == s[Len(s)]

\* str.replace(old, new)
RECURSIVE Replace(_, _, _)
Replace(s, old, new) ==
    IF Len(s) < Len(old) THEN s
    ELSE IF SubSeq(s, 1, Len(old)) = old
         THEN new \o Replace(SubSeq(s, Len(old) + 1, Len(s)), old, new)
         ELSE <<Head(s)>> \o Replace(Tail(s), old, new)

\* read_params: {img_name: [values]} of a file's rows; a later row of a name wins
RECURSIVE read_params(_)
read_params(rows) ==
    IF rows = <<>> THEN <<>>
    ELSE LET r == Last(rows)
             before == read_params(SubSeq(rows, 1, Len(rows) - 1))
         IN  (r.img_name :> r.values) @@ before

\* swap_key: {img_name: {params_name: float64 array}}, a defaultdict(dict)
swap_key(params) ==
    LET names == UNION {DOMAIN params[k] : k \in DOMAIN params}
    IN  [n \in names |->
            [k \in {q \in DOMAIN params : n \in DOMAIN params[q]} |-> params[k][n]]]

RECURSIVE Concat(_)
Concat(seqs) == IF seqs = <<>> THEN <<>> ELSE Head(seqs) \o Concat(Tail(seqs))

RECURSIVE SetToSeq(_)
SetToSeq(S) ==
    IF S = {} THEN <<>>
    ELSE LET x == CHOOSE y \in S : TRUE IN <<x>> \o SetToSeq(S \ {x})

\* np.concatenate of the four groups of one image, in params_key order
concat_params(entry) == Concat([i \in 1..Len(params_key) |-> entry[params_key[i]]])

\* deca_params[name] on the defaultdict: a missing name is inserted as {}
Lookup(table, name) ==
    IF name \in DOMAIN table THEN table ELSE (name :> <<>>) @@ table

\* lines 85-90: attach each uv_detail_normals png to the image it is named after
RECURSIVE attach_uvdn(_, _)
attach_uvdn(table, paths) ==
    IF paths = <<>> THEN table
    ELSE LET path == Head(paths)
             img_name == Last(Split(Last(Split(path, "/")), "_"))
             img_name_ext == Replace(img_name, <<".", "png">>, <<".", "jpg">>)
             t == Lookup(table, img_name_ext)
         IN  attach_uvdn([t EXCEPT ![img_name_ext] = ("uv_detail_normals" :> path) @@ @],
                         Tail(paths))

load_deca_params(fs, bound) ==
    LET table == swap_key([k \in ParamKeys |-> read_params(fs.params[k])])
        names == SetToSeq(DOMAIN table)
    IN  IF \E n \in DOMAIN table : ~(ParamKeys \subseteq DOMAIN table[n])
        THEN Raise("KeyError")
        ELSE IF names = <<>> THEN Raise("ValueError")
        ELSE LET all_params == [i \in 1..Len(names) |-> concat_params(table[names[i]])]
                 stats == normalize(all_params, NoArray, NoArray,
                                    FromInt(-bound), FromInt(bound))
             IN  [kind |-> "ok",
                  images |-> attach_uvdn(table, fs.uv_detail_normals),
                  normalize |-> [min_val |-> stats.min_val, max_val |-> stats.max_val]]

\* _list_image_files_recursively over a flat directory whose listing is sorted
RECURSIVE list_image_files(_, _)
list_image_files(data_dir, entries) ==
    IF entries = <<>> THEN <<>>
    ELSE LET entry == Head(entries)
             ext == Last(Split(entry, "."))
             rest == list_image_files(data_dir, Tail(entries))
         IN  IF "." \in {entry[i] : i \in 1..Len(entry)}
                /\ ext \in {<<"jpg">>, <<"jpeg">>, <<"png">>, <<"gif">>}
             THEN <<data_dir \o <<"/">> \o entry>> \o rest
             ELSE rest

(***************************************************************************)
(* DECADataset.  The resize helpers of img_util are kept symbolic: which   *)
(* helper ran, and for random_crop_arr the offset it drew.                 *)
(***************************************************************************)
open_rgb(path) == [src |-> path, mode |-> "RGB"]

resize_arr(pil_image, resolution) ==
    [src |-> pil_image.src, size |-> resolution, how |-> <<"resize">>, flipped |-> FALSE]
center_crop_arr(pil_image, resolution) ==
    [src |-> pil_image.src, size |-> resolution, how |-> <<"center_crop">>, flipped |-> FALSE]
random_crop_arr(pil_image, resolution, offset) ==
    [src |-> pil_image.src, size |-> resolution, how |-> <<"random_crop", offset>>,
     flipped |-> FALSE]

\* arr[:, ::-1]
flip(arr) == [arr EXCEPT !.flipped = ~@]

\* (arr / 127.5) - 1
scale(arr) == [src |-> arr.src, size |-> arr.size, how |-> arr.how,
               flipped |-> arr.flipped, range |-> <<-1, 1>>]

\* augmentation in which 'random_flip' passes the image on unflipped when the draw
\* says so, as 'flip' and None do; C9 must tell the two apart
augmentation_passing(self, pil_image, draw) ==
    LET arr == IF self.resize_mode = "random_crop"
                 THEN random_crop_arr(pil_image, self.resolution, draw.crop)
               ELSE IF self.resize_mode = "center_crop"
                 THEN center_crop_arr(pil_image, self.resolution)
               ELSE resize_arr(pil_image, self.resolution)
    IN  IF self.resize_mode \notin {"random_crop", "center_crop", "resize"}
        THEN Raise("TypeError")
        ELSE IF self.augment_mode = "random_flip"
             THEN (IF draw.coin THEN Ok(flip(arr)) ELSE Ok(arr))
        ELSE IF self.augment_mode = "flip" THEN Ok(flip(arr))
        ELSE IF self.augment_mode = None THEN Ok(arr)
        ELSE Raise("TypeError")

\* draw.coin is the outcome of random.random() < 0.5, draw.crop the offset
\* random_crop_arr draws; "raise NotImplemented" raises a TypeError, NotImplemented
\* being no exception
augmentation(self, pil_image, draw) ==
    LET arr == IF self.resize_mode = "random_crop"
                 THEN random_crop_arr(pil_image, self.resolution, draw.crop)
               ELSE IF self.resize_mode = "center_crop"
                 THEN center_crop_arr(pil_image, self.resolution)
               ELSE resize_arr(pil_image, self.resolution)
    IN  IF self.resize_mode \notin {"random_crop", "center_crop", "resize"}
        THEN Raise("TypeError")
        ELSE IF self.augment_mode = "random_flip" /\ draw.coin THEN Ok(flip(arr))
        ELSE IF self.augment_mode = "flip" THEN Ok(flip(arr))
        ELSE IF self.augment_mode = None THEN Ok(arr)
        ELSE Raise("TypeError")

\* __getitem__: the outcome, and the parameter table as the call leaves it.
\* idx counts from 1 here.
getitem(self, table, idx, draw1, draw2) ==
    LET path == self.local_images[idx]
        raw_img == augmentation(self, open_rgb(path), draw1)
        img_name == Last(Split(path, "/"))
        looked == [table EXCEPT !.images = Lookup(table.images, img_name)]
        entry == looked.images[img_name]
    IN  IF Failed(raw_img) THEN [outcome |-> raw_img, table |-> table]
        ELSE IF ~(ParamKeys \subseteq DOMAIN entry)
             THEN [outcome |-> Raise("KeyError"), table |-> looked]
        ELSE LET params_norm == normalize(<<concat_params(entry)>>,
                                          table.normalize.min_val,
                                          table.normalize.max_val,
                                          FromInt(-self.bound), FromInt(self.bound))
             IN  IF "uv_detail_normals" \notin DOMAIN entry
                 THEN [outcome |-> Raise("KeyError"), table |-> looked]
                 ELSE LET uvdn == augmentation(self, open_rgb(entry["uv_detail_normals"]),
                                               draw2)
                      IN  IF Failed(uvdn) THEN [outcome |-> uvdn, table |-> looked]
                          ELSE IF self.in_image = "raw"
                               THEN [outcome |->
                                        [kind |-> "ok",
                                         deca_params |-> params_norm.arr_norm[1],
                                         image |-> <<scale(raw_img.value)>>],
                                     table |-> looked]
                          ELSE IF self.in_image = "raw+uvdn"
                               THEN [outcome |->
                                        [kind |-> "ok",
                                         deca_params |-> params_norm.arr_norm[1],
                                         image |-> <<scale(raw_img.value),
                                                     scale(uvdn.value)>>],
                                     table |-> looked]
                          ELSE [outcome |-> Raise("NotImplementedError"), table |-> looked]

\* load_data_deca up to the DECADataset it wraps in a DataLoader
DECADataset(image_paths, bound, resize_mode, resolution, augment_mode, in_image) ==
    [kind |-> "ok", local_images |-> image_paths, bound |-> bound,
     in_image |-> in_image, resolution |-> resolution, resize_mode |-> resize_mode,
     augment_mode |-> augment_mode, use_detector |-> FALSE]

(***************************************************************************)
(* SpecData and SpecAugment: load_data_deca once, then __getitem__ calls.  *)
(* SpecData varies the parameter files under the default modes,            *)
(* SpecAugment varies the modes over one set of parameter files.           *)
(***************************************************************************)
MaxParam == 2
MaxBound == 2
MaxCrop == 1

Name(i) == <<DigitChar[i + 1], ".", "jpg">>
Row(i, v) == [img_name |-> Name(i), values |-> <<FromInt(v)>>]

\* every file has the row of 0.jpg; the row of 1.jpg is there or not
ParamRows == {<<Row(0, 1)>>} \cup {<<Row(0, 1), Row(1, v)>> : v \in 0..MaxParam}

UvdnPath(i) == <<"deca", "/", "uv_detail_normals", "/", "train", "/",
                 "uvdn", "_", DigitChar[i + 1], ".", "png">>
UvdnListings ==
    {<<>>, <<UvdnPath(0)>>, <<UvdnPath(1)>>, <<UvdnPath(2)>>,
     <<UvdnPath(0), UvdnPath(1)>>, <<UvdnPath(0), UvdnPath(2)>>,
     <<UvdnPath(1), UvdnPath(2)>>, <<UvdnPath(0), UvdnPath(1), UvdnPath(2)>>}

DataDir == <<Name(0), Name(1), Name(2), <<"README", ".", "md">>>>

InitOver(rows) ==
    /\ files \in [kind : {"files"}, params : [ParamKeys -> rows],
                  uv_detail_normals : UvdnListings, data_dir : {DataDir}]
    /\ deca_params = Idle
    /\ dataset = Idle
    /\ fetched = Idle
    /\ IdleNorm
    /\ IdleBuild

InitData == InitOver(ParamRows)
InitAugment == InitOver({<<Row(0, 1), Row(1, 2)>>})

LoadOver(resize_modes, augment_modes) ==
    /\ dataset = Idle
    /\ \E deca_dir \in {<<>>, <<"deca">>}, bound \in 1..MaxBound,
          resize_mode \in resize_modes, augment_mode \in augment_modes,
          in_image \in {"raw", "raw+uvdn", "raw+depth"} :
        IF deca_dir = <<>>
        THEN /\ dataset' = Raise("ValueError")
             /\ UNCHANGED deca_params
        ELSE LET loaded == load_deca_params(files, bound)
             IN  /\ deca_params' = loaded
                 /\ dataset' =
                        IF Failed(loaded) THEN loaded
                        ELSE DECADataset(list_image_files(<<"data">>, files.data_dir),
                                         bound, resize_mode, 64, augment_mode, in_image)
    /\ UNCHANGED <<files, fetched, normVars, buildVars>>

LoadDataDeca == LoadOver({"resize"}, {None})
LoadDataDecaAnyMode ==
    LoadOver({"random_crop", "center_crop", "resize", "pad"},
             {None, "flip", "random_flip", "rotate"})

Draws == [coin : BOOLEAN, crop : 0..MaxCrop]

GetItem ==
    /\ dataset.kind = "ok"
    /\ \E idx \in 1..Len(dataset.local_images), draw1 \in Draws, draw2 \in Draws :
        LET r == getitem(dataset, deca_params, idx, draw1, draw2)
        IN  /\ fetched' = [kind |-> "fetch", idx |-> idx, outcome |-> r.outcome,
                           table_before |-> deca_params]
            /\ deca_params' = r.table
    /\ UNCHANGED <<files, dataset, normVars, buildVars>>

NextData == LoadDataDeca \/ GetItem
NextAugment == LoadDataDecaAnyMode \/ GetItem

SpecData == InitData /\ [][NextData]_vars
SpecAugment == InitAugment /\ [][NextAugment]_vars

Fetched == fetched.kind = "fetch"
FetchedOk == Fetched /\ fetched.outcome.kind = "ok"
FetchedName == Last(Split(dataset.local_images[fetched.idx], "/"))

\* C5: for an image whose parameters went into min_val / max_val, every component of
\* the conditioning vector __getitem__ returns is a defined number within
\* [-bound, bound]; a component equal to its column's minimum maps to -bound and one
\* equal to its column's maximum maps to +bound; also in a column whose value is the
\* same for all images.
C5_ConditioningWithinBound ==
    FetchedOk =>
        LET v == fetched.outcome.deca_params
            raw == concat_params(deca_params.images[FetchedName])
            lo == deca_params.normalize.min_val
            hi == deca_params.normalize.max_val
            b == FromInt(dataset.bound)
        IN  \A c \in 1..Len(v) :
                /\ IsFinite(v[c])
                /\ RLe(RNeg(b), v[c]) /\ RLe(v[c], b)
                /\ raw[c] = lo[c] => v[c] = RNeg(b)
                /\ raw[c] = hi[c] => v[c] = b

HasAllGroups(table, name) ==
    name \in DOMAIN table.images /\ ParamKeys \subseteq DOMAIN table.images[name]

\* C10: with in_image = 'raw', a fetch of an image that has all four parameter groups
\* succeeds and returns the pair made of its normalised parameters and its raw image,
\* whether or not the image has a uv_detail_normals entry; and a fetch, successful or
\* not, leaves the parameter table and min_val / max_val as they were.
C10_RawFetchNeedsNoUvdn ==
    Fetched =>
        /\ deca_params = fetched.table_before
        /\ (dataset.in_image = "raw" /\ HasAllGroups(fetched.table_before, FetchedName))
              => /\ fetched.outcome.kind = "ok"
                 /\ Len(fetched.outcome.image) = 1
                 /\ fetched.outcome.image[1].src = dataset.local_images[fetched.idx]

\* C7: a fetch from a dataset whose in_image is neither 'raw' nor 'raw+uvdn' yields no
\* item and ends with a NotImplementedError; so does a fetch under an unrecognised
\* resize_mode or augment_mode.
C7_UnsupportedModeIsNotImplementedError ==
    Fetched =>
        /\ dataset.in_image \notin {"raw", "raw+uvdn"}
              => fetched.outcome.kind = "NotImplementedError"
        /\ dataset.resize_mode \notin {"random_crop", "center_crop", "resize"}
              => fetched.outcome.kind = "NotImplementedError"
        /\ dataset.augment_mode \notin {None, "flip", "random_flip"}
              => fetched.outcome.kind = "NotImplementedError"

====
